---- MODULE Spec2Model ----
(***************************************************************************)
(* Model of the lending-pool accounting core of marginfi-v2:               *)
(* programs/marginfi/src/state/marginfi_group.rs (InterestRateConfig and   *)
(* Bank).                                                                  *)
(*                                                                         *)
(* I80F48 is a signed two's-complement fixed-point number of 128 bits, 48  *)
(* of them fractional.  TLC's integers have 32 bits, so the model keeps    *)
(* the representation (a value is its integer bit pattern, ONE is          *)
(* 2^FracBits) and the arithmetic of the `fixed` crate, but at a smaller   *)
(* width: FracBits fractional bits and IntBits integer bits beside the     *)
(* sign.  A year is YearSeconds seconds long.                              *)
(***************************************************************************)
EXTENDS Integers, Sequences, FiniteSets, TLC

\* ---------------------------------------------------------------- bounds
FracBits == 3
IntBits == 4
YearSeconds == 2
MaxTime == 2
MaxSteps == 4

\* ------------------------------------------------------ I80F48 arithmetic
Scale == 2 ^ FracBits
MaxBits == 2 ^ (IntBits + FracBits) - 1
MinBits == -(2 ^ (IntBits + FracBits))
Modulus == 2 ^ (IntBits + FracBits + 1)

\* Results that are not values: a checked operation's None, and a panic.
NONE == MaxBits + 1
PANIC == MaxBits + 2

IsVal(x) == x >= MinBits /\ x <= MaxBits

ZERO == 0
ONE == Scale

\* I80F48::from(n) for an integer n that fits (u64 -> I80F48 is lossless).
from_int(n) == n * Scale

Abs(x) == IF x < 0 THEN -x ELSE x

\* The wrapped (two's-complement) value of an out-of-range result.
Wrap(v) == ((v - MinBits) % Modulus) + MinBits

Checked(v) == IF IsVal(v) THEN v ELSE NONE

\* A sentinel operand is passed on: the left operand is evaluated (and its
\* `?` taken) before the right one.
Lift2(a, b, v) == IF ~IsVal(a) THEN a ELSE IF ~IsVal(b) THEN b ELSE v

checked_add(a, b) == Lift2(a, b, Checked(a + b))

checked_sub(a, b) == Lift2(a, b, Checked(a - b))

\* The wide product shifted right arithmetically: rounds towards -infinity.
checked_mul(a, b) == Lift2(a, b, Checked((a * b) \div Scale))

\* The wide quotient (lhs << frac) / rhs of integer division: rounds
\* towards zero; None on a zero divisor.
TruncDiv(n, d) ==
    IF (n < 0) = (d < 0) THEN Abs(n) \div Abs(d) ELSE -(Abs(n) \div Abs(d))

checked_div(a, b) ==
    Lift2(a, b, IF b = 0 THEN NONE ELSE Checked(TruncDiv(a * Scale, b)))

\* The operators + and - on I80F48: on overflow they panic in a build with
\* overflow checks (oc) and wrap in a build without.
unchecked_add(oc, a, b) ==
    Lift2(a, b, IF IsVal(a + b) THEN a + b ELSE IF oc THEN PANIC ELSE Wrap(a + b))

unchecked_sub(oc, a, b) ==
    Lift2(a, b, IF IsVal(a - b) THEN a - b ELSE IF oc THEN PANIC ELSE Wrap(a - b))

\* u64 at the model's width: fewer bits than the integer part of I80F48.
U64Max == 2 ^ (IntBits - 1) - 1
U64Modulus == 2 ^ (IntBits - 1)

\* I80F48::to_num::<u64>(): the integer part (rounded towards -infinity);
\* a value that does not fit panics with debug assertions (da) and wraps
\* without.
to_num(da, v) ==
    LET n == v \div Scale
    IN  IF n >= 0 /\ n <= U64Max THEN n
        ELSE IF da THEN PANIC ELSE n % U64Modulus

SECONDS_PER_YEAR == from_int(YearSeconds)

\* ---------------------------------------------------- InterestRateConfig
IrcResult(status, l, b, g, i) ==
    [status |-> status, lending_rate |-> l, borrowing_rate |-> b,
     group_fees_apr |-> g, insurance_fees_apr |-> i]

IrcFail(x) ==
    IrcResult(IF x = PANIC THEN "Panic" ELSE "None", 0, 0, 0, 0)

\* The second piece of the curve, from the quotient q on.
curve_above_optimal(q, slope, plateau_ir) ==
    IF ~IsVal(q) THEN q
    ELSE checked_add(checked_mul(q, slope), plateau_ir)

interest_rate_curve(irc, ur, oc) ==
    IF ur <= irc.optimal_utilization_rate
    THEN checked_mul(checked_div(ur, irc.optimal_utilization_rate),
                     irc.plateau_interest_rate)
    ELSE curve_above_optimal(
            checked_div(unchecked_sub(oc, ur, irc.optimal_utilization_rate),
                        unchecked_sub(oc, ONE, irc.optimal_utilization_rate)),
            unchecked_sub(oc, irc.max_interest_rate, irc.plateau_interest_rate),
            irc.plateau_interest_rate)

\* The fee rate without the fixed fee.
calc_fee_rate_without_fixed(base_rate, rate_fees, fixed_fees) ==
    checked_mul(base_rate, rate_fees)

calc_fee_rate(base_rate, rate_fees, fixed_fees) ==
    checked_add(checked_mul(base_rate, rate_fees), fixed_fees)

\* The `?` of each step in the order of the code, then the four assertions.
rates_result(rate_fee, total_fixed_fee_apr, base_rate, lending_rate, borrowing_rate, group_fees_apr, insurance_fees_apr) ==
    IF ~IsVal(rate_fee) THEN IrcFail(rate_fee)
    ELSE IF ~IsVal(total_fixed_fee_apr) THEN IrcFail(total_fixed_fee_apr)
    ELSE IF ~IsVal(base_rate) THEN IrcFail(base_rate)
    ELSE IF ~IsVal(lending_rate) THEN IrcFail(lending_rate)
    ELSE IF ~IsVal(borrowing_rate) THEN IrcFail(borrowing_rate)
    ELSE IF ~IsVal(group_fees_apr) THEN IrcFail(group_fees_apr)
    ELSE IF ~IsVal(insurance_fees_apr) THEN IrcFail(insurance_fees_apr)
    ELSE IF lending_rate < ZERO \/ borrowing_rate < ZERO
            \/ group_fees_apr < ZERO \/ insurance_fees_apr < ZERO
         THEN IrcFail(PANIC)
    ELSE IrcResult("Some", lending_rate, borrowing_rate,
                   group_fees_apr, insurance_fees_apr)

rates_of_base(irc, utilization_ratio, rate_fee, total_fixed_fee_apr, base_rate) ==
    rates_result(rate_fee, total_fixed_fee_apr, base_rate,
        checked_mul(base_rate, utilization_ratio),
        checked_add(checked_mul(base_rate, checked_add(ONE, rate_fee)),
                    total_fixed_fee_apr),
        calc_fee_rate(base_rate, irc.protocol_ir_fee, irc.protocol_fixed_fee_apr),
        calc_fee_rate(base_rate, irc.insurance_ir_fee, irc.insurance_fee_fixed_apr))

calc_interest_rate(irc, utilization_ratio, oc) ==
    rates_of_base(irc, utilization_ratio,
        unchecked_add(oc, irc.protocol_ir_fee, irc.insurance_ir_fee),
        unchecked_add(oc, irc.protocol_fixed_fee_apr, irc.insurance_fee_fixed_apr),
        interest_rate_curve(irc, utilization_ratio, oc))

\* ------------------------------------------------------------------ Bank
\* bank: the Bank account as stored; op, arg, res: the last call, its
\* argument and how it ended; left: the Bank as that call left it in memory;
\* steps: the number of calls made.
VARIABLES bank, op, arg, res, left, steps

vars == <<bank, op, arg, res, left, steps>>

\* Option<T>: None is the empty sequence, Some(v) is <<v>>.
NoneOpt == <<>>
SomeOpt(v) == <<v>>

\* set_if_some!(field, option)
set_if_some(old, opt) == IF opt = NoneOpt THEN old ELSE opt[1]

BankConfig_default(max_capacity, interest_rate_config) ==
    [deposit_weight_init |-> ZERO,
     deposit_weight_maint |-> ZERO,
     liability_weight_init |-> ONE,
     liability_weight_maint |-> ONE,
     max_capacity |-> max_capacity,
     pyth_oracle |-> "oracle0",
     interest_rate_config |-> interest_rate_config]

\* The Bank created with the default last_update and the vaults in another
\* order.
Bank_new_default_time(marginfi_group_pk, config, mint_pk, liquidity_vault, insurance_vault, fee_vault, current_timestamp) ==
    [mint_pk |-> mint_pk,
     deposit_share_value |-> ONE,
     liability_share_value |-> ONE,
     liquidity_vault |-> liquidity_vault,
     insurance_vault |-> fee_vault,
     fee_vault |-> insurance_vault,
     config |-> config,
     total_borrow_shares |-> ZERO,
     total_deposit_shares |-> ZERO,
     last_update |-> 0,
     group |-> marginfi_group_pk]

Bank_new(marginfi_group_pk, config, mint_pk, liquidity_vault, insurance_vault, fee_vault, current_timestamp) ==
    [mint_pk |-> mint_pk,
     deposit_share_value |-> ONE,
     liability_share_value |-> ONE,
     liquidity_vault |-> liquidity_vault,
     insurance_vault |-> insurance_vault,
     fee_vault |-> fee_vault,
     config |-> config,
     total_borrow_shares |-> ZERO,
     total_deposit_shares |-> ZERO,
     last_update |-> current_timestamp,
     group |-> marginfi_group_pk]

get_liability_amount(b, shares) == checked_mul(shares, b.liability_share_value)

get_deposit_amount(b, shares) == checked_mul(shares, b.deposit_share_value)

get_liability_shares(b, value) == checked_div(value, b.liability_share_value)

\* The deposit conversion dividing by the value of a liability share.
get_deposit_shares_by_liability_value(b, value) == checked_div(value, b.liability_share_value)

get_deposit_shares(b, value) == checked_div(value, b.deposit_share_value)

\* What a call leaves behind: how it ended (Ok, an error, or a panic), the
\* Bank as the call left it in memory, and the fees an accrual returns.
Outcome(kind, b, fees) == [kind |-> kind, bank |-> b, fees |-> fees]

NoFees == <<0, 0>>

\* The capacity check with <= where the code has <: a deposit that brings the
\* value exactly to the capacity is accepted.
check_capacity_le(b1, shares, total_shares_value, max_deposit_capacity) ==
    IF shares > 0
    THEN IF total_shares_value = NONE THEN Outcome("MathError", b1, NoFees)
         ELSE IF max_deposit_capacity = NONE THEN Outcome("MathError", b1, NoFees)
         ELSE IF ~(total_shares_value <= max_deposit_capacity)
         THEN Outcome("BankDepositCapacityExceeded", b1, NoFees)
         ELSE Outcome("Ok", b1, NoFees)
    ELSE Outcome("Ok", b1, NoFees)

\* The capacity check, made on the Bank whose total is already updated.
check_capacity(b1, shares, total_shares_value, max_deposit_capacity) ==
    IF shares > 0
    THEN IF total_shares_value = NONE THEN Outcome("MathError", b1, NoFees)
         ELSE IF max_deposit_capacity = NONE THEN Outcome("MathError", b1, NoFees)
         ELSE IF ~(total_shares_value < max_deposit_capacity)
         THEN Outcome("BankDepositCapacityExceeded", b1, NoFees)
         ELSE Outcome("Ok", b1, NoFees)
    ELSE Outcome("Ok", b1, NoFees)

\* The value of the new total compared with max_capacity taken as an amount.
store_deposit_shares_capacity_as_amount(b, shares, new_total) ==
    IF new_total = NONE THEN Outcome("MathError", b, NoFees)
    ELSE check_capacity([b EXCEPT !.total_deposit_shares = new_total], shares,
            checked_mul(new_total, b.deposit_share_value),
            from_int(b.config.max_capacity))

store_deposit_shares(b, shares, new_total) ==
    IF new_total = NONE THEN Outcome("MathError", b, NoFees)
    ELSE check_capacity([b EXCEPT !.total_deposit_shares = new_total], shares,
            checked_mul(new_total, b.deposit_share_value),
            checked_mul(from_int(b.config.max_capacity), b.deposit_share_value))

change_deposit_shares(b, shares) ==
    store_deposit_shares(b, shares, checked_add(b.total_deposit_shares, shares))

store_borrow_shares(b, new_total) ==
    IF new_total = NONE THEN Outcome("MathError", b, NoFees)
    ELSE Outcome("Ok", [b EXCEPT !.total_borrow_shares = new_total], NoFees)

\* The borrow refused when the liabilities would exceed the deposits.
change_liability_shares_within_deposits(b, shares) ==
    IF shares > 0 /\ (b.total_borrow_shares + shares) * b.liability_share_value > b.total_deposit_shares * b.deposit_share_value
    THEN Outcome("BankDepositCapacityExceeded", b, NoFees)
    ELSE store_borrow_shares(b, checked_add(b.total_borrow_shares, shares))

change_liability_shares(b, shares) ==
    store_borrow_shares(b, checked_add(b.total_borrow_shares, shares))

\* configure with the maintenance deposit weight written from the option of
\* the initial one.
configure_maint_from_init(b, config) ==
    Outcome("Ok",
        [b EXCEPT
            !.config.deposit_weight_init =
                set_if_some(@, config.deposit_weight_init),
            !.config.deposit_weight_maint =
                set_if_some(@, config.deposit_weight_init),
            !.config.liability_weight_init =
                set_if_some(@, config.liability_weight_init),
            !.config.liability_weight_maint =
                set_if_some(@, config.liability_weight_maint),
            !.config.max_capacity = set_if_some(@, config.max_capacity),
            !.config.pyth_oracle = set_if_some(@, config.pyth_oracle)],
        NoFees)

configure(b, config) ==
    Outcome("Ok",
        [b EXCEPT
            !.config.deposit_weight_init =
                set_if_some(@, config.deposit_weight_init),
            !.config.deposit_weight_maint =
                set_if_some(@, config.deposit_weight_maint),
            !.config.liability_weight_init =
                set_if_some(@, config.liability_weight_init),
            !.config.liability_weight_maint =
                set_if_some(@, config.liability_weight_maint),
            !.config.max_capacity = set_if_some(@, config.max_capacity),
            !.config.pyth_oracle = set_if_some(@, config.pyth_oracle)],
        NoFees)

\* The accrued payment without the principal: the interest only.
calc_accrued_interest_only(apr, time_delta, value) ==
    checked_mul(value,
        checked_mul(checked_div(apr, SECONDS_PER_YEAR), from_int(time_delta)))

\* The accrued payment over one second more than the period.
calc_accrued_interest_one_more_second(apr, time_delta, value) ==
    checked_mul(value,
        checked_add(ONE,
            checked_mul(checked_div(apr, SECONDS_PER_YEAR),
                        from_int(time_delta + 1))))

\* The accrued payment with the yearly rate applied to every second.
calc_accrued_interest_at_yearly_rate(apr, time_delta, value) ==
    checked_mul(value,
        checked_add(ONE, checked_mul(apr, from_int(time_delta))))

calc_accrued_interest_payment_per_period(apr, time_delta, value) ==
    checked_mul(value,
        checked_add(ONE,
            checked_mul(checked_div(apr, SECONDS_PER_YEAR), from_int(time_delta))))

\* The payment of the period with the principal in it.
calc_interest_payment_with_principal(apr, time_delta, value) ==
    checked_add(value,
        checked_mul(checked_mul(value, checked_div(apr, SECONDS_PER_YEAR)),
                    from_int(time_delta)))

\* The payment with the second that has started charged in full.
calc_interest_payment_for_started_second(apr, time_delta, value) ==
    checked_mul(checked_mul(value, checked_div(apr, SECONDS_PER_YEAR)),
                from_int(time_delta + 1))

calc_interest_payment_for_period(apr, time_delta, value) ==
    checked_mul(checked_mul(value, checked_div(apr, SECONDS_PER_YEAR)),
                from_int(time_delta))

Changes(status, d, l, g, i) ==
    [status |-> status, deposit_share_value |-> d, liability_share_value |-> l,
     group_fees_collected |-> g, insurance_fees_collected |-> i]

changes_result(d, l, g, i) ==
    IF d = NONE \/ l = NONE \/ g = NONE \/ i = NONE
    THEN Changes("None", 0, 0, 0, 0)
    ELSE Changes("Some", d, l, g, i)

changes_of_rates(time_delta, total_liabilities, deposit_share_value, liability_share_value, r) ==
    IF r.status # "Some" THEN Changes(r.status, 0, 0, 0, 0)
    ELSE changes_result(
            calc_accrued_interest_payment_per_period(
                r.lending_rate, time_delta, deposit_share_value),
            calc_accrued_interest_payment_per_period(
                r.borrowing_rate, time_delta, liability_share_value),
            calc_interest_payment_for_period(
                r.group_fees_apr, time_delta, total_liabilities),
            calc_interest_payment_for_period(
                r.insurance_fees_apr, time_delta, total_liabilities))

\* A pool whose utilization cannot be computed taken as idle.
changes_of_utilization_idle_when_empty(time_delta, total_liabilities, interest_rate_config, deposit_share_value, liability_share_value, oc, utilization_rate) ==
    changes_of_rates(time_delta, total_liabilities, deposit_share_value,
        liability_share_value,
        calc_interest_rate(interest_rate_config,
            IF utilization_rate = NONE THEN ZERO ELSE utilization_rate, oc))

changes_of_utilization(time_delta, total_liabilities, interest_rate_config, deposit_share_value, liability_share_value, oc, utilization_rate) ==
    IF utilization_rate = NONE THEN Changes("None", 0, 0, 0, 0)
    ELSE changes_of_rates(time_delta, total_liabilities, deposit_share_value,
            liability_share_value,
            calc_interest_rate(interest_rate_config, utilization_rate, oc))

calc_interest_rate_accrual_state_changes(time_delta, total_deposits, total_liabilities, interest_rate_config, deposit_share_value, liability_share_value, oc) ==
    changes_of_utilization(time_delta, total_liabilities, interest_rate_config,
        deposit_share_value, liability_share_value, oc,
        checked_div(total_liabilities, total_deposits))

\* The fees are converted after the three fields are written.  The kinds of
\* panic: PanicUnwrap (the unwrap of the time delta), PanicRates (inside
\* calc_interest_rate: a failed assertion or an overflowing + or -) and
\* PanicToNum (a fee that does not fit u64).
return_fees(b1, group_fees, insurance_fees) ==
    IF group_fees = PANIC \/ insurance_fees = PANIC
    THEN Outcome("PanicToNum", b1, NoFees)
    ELSE Outcome("Ok", b1, <<group_fees, insurance_fees>>)

\* The commit with last_update written before the outputs are looked at.
commit_accrual_stamps_first(b, unix_timestamp, da, c) ==
    IF c.status = "None"
    THEN Outcome("MathError", [b EXCEPT !.last_update = unix_timestamp], NoFees)
    ELSE IF c.status = "Panic" THEN Outcome("PanicRates", b, NoFees)
    ELSE return_fees(
            [b EXCEPT !.deposit_share_value = c.deposit_share_value,
                      !.liability_share_value = c.liability_share_value,
                      !.last_update = unix_timestamp],
            to_num(da, c.group_fees_collected),
            to_num(da, c.insurance_fees_collected))

commit_accrual(b, unix_timestamp, da, c) ==
    IF c.status = "None" THEN Outcome("MathError", b, NoFees)
    ELSE IF c.status = "Panic" THEN Outcome("PanicRates", b, NoFees)
    ELSE return_fees(
            [b EXCEPT !.deposit_share_value = c.deposit_share_value,
                      !.liability_share_value = c.liability_share_value,
                      !.last_update = unix_timestamp],
            to_num(da, c.group_fees_collected),
            to_num(da, c.insurance_fees_collected))

\* The accrual over the distance between the two timestamps, whichever is
\* the later.
accrue_totals_absolute_delta(b, unix_timestamp, oc, da, time_delta, total_deposits, total_liabilities) ==
    IF total_deposits = NONE THEN Outcome("MathError", b, NoFees)
    ELSE IF total_liabilities = NONE THEN Outcome("MathError", b, NoFees)
    ELSE commit_accrual(b, unix_timestamp, da,
            calc_interest_rate_accrual_state_changes(
                Abs(time_delta), total_deposits, total_liabilities,
                b.config.interest_rate_config, b.deposit_share_value,
                b.liability_share_value, oc))

accrue_totals(b, unix_timestamp, oc, da, time_delta, total_deposits, total_liabilities) ==
    IF time_delta < 0 THEN Outcome("PanicUnwrap", b, NoFees)
    ELSE IF total_deposits = NONE THEN Outcome("MathError", b, NoFees)
    ELSE IF total_liabilities = NONE THEN Outcome("MathError", b, NoFees)
    ELSE commit_accrual(b, unix_timestamp, da,
            calc_interest_rate_accrual_state_changes(
                time_delta, total_deposits, total_liabilities,
                b.config.interest_rate_config, b.deposit_share_value,
                b.liability_share_value, oc))

accrue_interest(b, unix_timestamp, oc, da) ==
    accrue_totals(b, unix_timestamp, oc, da,
        unix_timestamp - b.last_update,
        get_deposit_amount(b, b.total_deposit_shares),
        get_liability_amount(b, b.total_borrow_shares))

\* The new share value stored as the value of a liability share.
store_share_value_of_liabilities(b, new_share_value) ==
    IF new_share_value = NONE THEN Outcome("MathError", b, NoFees)
    ELSE Outcome("Ok", [b EXCEPT !.liability_share_value = new_share_value], NoFees)

store_share_value(b, new_share_value) ==
    IF new_share_value = NONE THEN Outcome("MathError", b, NoFees)
    ELSE Outcome("Ok", [b EXCEPT !.deposit_share_value = new_share_value], NoFees)

\* The loss taken off the value of one share instead of off the value of
\* all of them.
socialize_loss_per_share(b, loss_amount) ==
    store_share_value(b,
        checked_div(
            checked_mul(b.total_deposit_shares,
                        checked_sub(b.deposit_share_value, loss_amount)),
            b.total_deposit_shares))

\* The loss taken off twice.
socialize_loss_counted_twice(b, loss_amount) ==
    store_share_value(b,
        checked_div(
            checked_sub(
                checked_sub(checked_mul(b.total_deposit_shares, b.deposit_share_value),
                            loss_amount),
                loss_amount),
            b.total_deposit_shares))

\* An empty pool left as it is, without an error.
socialize_loss_skips_empty_pool(b, loss_amount) ==
    IF b.total_deposit_shares = 0 THEN Outcome("Ok", b, NoFees)
    ELSE store_share_value(b,
            checked_div(
                checked_sub(checked_mul(b.total_deposit_shares, b.deposit_share_value),
                            loss_amount),
                b.total_deposit_shares))

socialize_loss(b, loss_amount) ==
    store_share_value(b,
        checked_div(
            checked_sub(checked_mul(b.total_deposit_shares, b.deposit_share_value),
                        loss_amount),
            b.total_deposit_shares))

\* ---------------------------------------------------------------- inputs
Half == ONE \div 2

IrcOf(optimal, plateau, max, ins_fixed, ins_ir, prot_fixed, prot_ir) ==
    [optimal_utilization_rate |-> optimal,
     plateau_interest_rate |-> plateau,
     max_interest_rate |-> max,
     insurance_fee_fixed_apr |-> ins_fixed,
     insurance_ir_fee |-> ins_ir,
     protocol_fixed_fee_apr |-> prot_fixed,
     protocol_ir_fee |-> prot_ir]

\* The interest-rate configurations a Bank is created with: the all-zero
\* default, and a rising curve with fixed fees.
InterestRateConfigs ==
    { IrcOf(ZERO, ZERO, ZERO, ZERO, ZERO, ZERO, ZERO),
      IrcOf(Half, 4 * ONE, 8 * ONE, Half, ZERO, 4 * ONE, ZERO) }

Capacities == {0, 3}

ShareDeltas == {-ONE, ONE, 2 * ONE}

LossAmounts == {ZERO, ONE, 4 * ONE}

Timestamps == 0 .. MaxTime

BankConfigOptOf(dwi, dwm, lwi, lwm, cap, oracle) ==
    [deposit_weight_init |-> dwi,
     deposit_weight_maint |-> dwm,
     liability_weight_init |-> lwi,
     liability_weight_maint |-> lwm,
     max_capacity |-> cap,
     pyth_oracle |-> oracle]

BankConfigOpts ==
    { BankConfigOptOf(NoneOpt, NoneOpt, NoneOpt, NoneOpt, NoneOpt, NoneOpt),
      BankConfigOptOf(SomeOpt(Half), SomeOpt(ONE), NoneOpt, NoneOpt, NoneOpt,
                      SomeOpt("oracle1")) }
    \cup { BankConfigOptOf(NoneOpt, NoneOpt, NoneOpt, NoneOpt, SomeOpt(c), NoneOpt) :
             c \in Capacities }

\* ----------------------------------------------------------- the machine
Init ==
    /\ \E irc \in InterestRateConfigs, cap \in Capacities :
         bank = Bank_new("group", BankConfig_default(cap, irc), "mint",
                         "liquidity_vault", "insurance_vault", "fee_vault", 0)
    /\ op = "new"
    /\ arg = 0
    /\ res = [kind |-> "Ok", fees |-> NoFees]
    /\ left = bank
    /\ steps = 0

IsPanic(kind) == kind \in {"PanicUnwrap", "PanicRates", "PanicToNum"}

\* A call that returns Ok is committed.  A call that returns an error fails
\* its instruction and a panic aborts it: the stored account keeps the data
\* it had when the instruction began.
Finish(name, a, out) ==
    /\ steps < MaxSteps
    /\ steps' = steps + 1
    /\ bank' = IF out.kind = "Ok" THEN out.bank ELSE bank
    /\ left' = out.bank
    /\ op' = name
    /\ arg' = a
    /\ res' = [kind |-> out.kind, fees |-> out.fees]

\* The ledger that calls the Bank takes away only shares it holds: a total
\* is the sum of the accounts' shares and never goes below zero.
ChangeDepositShares ==
    \E shares \in ShareDeltas :
        /\ bank.total_deposit_shares + shares >= 0
        /\ Finish("change_deposit_shares", shares,
                  change_deposit_shares(bank, shares))

ChangeLiabilityShares ==
    \E shares \in ShareDeltas :
        /\ bank.total_borrow_shares + shares >= 0
        /\ Finish("change_liability_shares", shares,
                  change_liability_shares(bank, shares))

Configure ==
    \E config \in BankConfigOpts :
        Finish("configure", config, configure(bank, config))

AccrueInterest ==
    \E unix_timestamp \in Timestamps, oc \in BOOLEAN, da \in BOOLEAN :
        Finish("accrue_interest", unix_timestamp,
               accrue_interest(bank, unix_timestamp, oc, da))

SocializeLoss ==
    \E loss_amount \in LossAmounts :
        Finish("socialize_loss", loss_amount, socialize_loss(bank, loss_amount))

Next ==
    \/ ChangeDepositShares
    \/ ChangeLiabilityShares
    \/ Configure
    \/ AccrueInterest
    \/ SocializeLoss

Spec == Init /\ [][Next]_vars

\* ------------------------------------------- the functions, call by call
\* A second machine: a Bank is created from its inputs, and the rate
\* functions of the InterestRateConfig it holds are called on their own.
\* The parameters of the configurations: plain values, and values at the
\* edge of the I80F48 range.
RateFeePairs == { <<ZERO, ZERO>>, <<Half, ZERO>>, <<MaxBits, ONE>> }

FixedFeePairs == { <<ZERO, ZERO>>, <<ONE, Half>>, <<MaxBits, ONE>> }

RateConfigs ==
    { IrcOf(optimal, plateau, max, fixed[2], rate[2], fixed[1], rate[1]) :
        optimal \in {ZERO, Half, ONE}, plateau \in {-ONE, ONE},
        max \in {2 * ONE, MaxBits}, rate \in RateFeePairs, fixed \in FixedFeePairs }

Utilizations == { ZERO, ONE \div 4, Half, 3 * (ONE \div 4), ONE, 2 * ONE }

Keys == { <<"group1", "mint1", "vault1", "vault2", "vault3">>, <<"group2", "mint2", "vault4", "vault5", "vault6">> }

NewArg(keys, config, current_timestamp) ==
    [marginfi_group_pk |-> keys[1], config |-> config, mint_pk |-> keys[2],
     liquidity_vault |-> keys[3], insurance_vault |-> keys[4],
     fee_vault |-> keys[5], current_timestamp |-> current_timestamp]

NewOf(a) ==
    Bank_new(a.marginfi_group_pk, a.config, a.mint_pk, a.liquidity_vault,
             a.insurance_vault, a.fee_vault, a.current_timestamp)

NewArgs ==
    { NewArg(keys, BankConfig_default(0, irc), current_timestamp) :
        keys \in Keys, irc \in RateConfigs, current_timestamp \in Timestamps }

\* The first Bank of the second machine; BankNew replaces it once.
InitPure ==
    /\ arg = NewArg(<<"group0", "mint0", "vault0", "vault0", "vault0">>, BankConfig_default(0, IrcOf(ZERO, ZERO, ZERO, ZERO, ZERO, ZERO, ZERO)), 0)
    /\ bank = NewOf(arg)
    /\ op = "new"
    /\ res = [kind |-> "Ok", fees |-> NoFees]
    /\ left = bank
    /\ steps = 0

BankNew ==
    /\ steps = 0
    /\ steps' = steps + 1
    /\ arg' \in NewArgs
    /\ bank' = NewOf(arg')
    /\ op' = "new"
    /\ res' = [kind |-> "Ok", fees |-> NoFees]
    /\ left' = bank'

CurveResult(x) ==
    IF x = PANIC THEN [status |-> "Panic", value |-> 0]
    ELSE IF x = NONE THEN [status |-> "None", value |-> 0]
    ELSE [status |-> "Some", value |-> x]

RateArg(utilization_ratio, oc) == [utilization_ratio |-> utilization_ratio, oc |-> oc]

InterestRateCurve ==
    \E ur \in Utilizations, oc \in BOOLEAN :
        /\ op' = "interest_rate_curve"
        /\ arg' = RateArg(ur, oc)
        /\ res' = CurveResult(interest_rate_curve(bank.config.interest_rate_config, ur, oc))
        /\ UNCHANGED <<bank, left, steps>>

CalcInterestRate ==
    \E utilization_ratio \in Utilizations, oc \in BOOLEAN :
        /\ op' = "calc_interest_rate"
        /\ arg' = RateArg(utilization_ratio, oc)
        /\ res' = calc_interest_rate(bank.config.interest_rate_config, utilization_ratio, oc)
        /\ UNCHANGED <<bank, left, steps>>

NextPure ==
    \/ BankNew
    \/ InterestRateCurve
    \/ CalcInterestRate

SpecPure == InitPure /\ [][NextPure]_vars

\* ------------------------------------------ the interest of one period
Aprs == { -1, ZERO, 1, 3, Half, ONE, ONE + 1, 3 * ONE, MaxBits }

Values == { -ONE, ZERO, 1, ONE, 2 * ONE + 1, 5 * ONE, MaxBits }

TimeDeltas == 0 .. (YearSeconds + 1)

PeriodArg(apr, time_delta, value) == [apr |-> apr, time_delta |-> time_delta, value |-> value]

CalcAccruedInterestPaymentPerPeriod ==
    \E apr \in Aprs, time_delta \in TimeDeltas, value \in Values :
        /\ op' = "calc_accrued_interest_payment_per_period"
        /\ arg' = PeriodArg(apr, time_delta, value)
        /\ res' = CurveResult(calc_accrued_interest_payment_per_period(apr, time_delta, value))
        /\ UNCHANGED <<bank, left, steps>>

CalcInterestPaymentForPeriod ==
    \E apr \in Aprs, time_delta \in TimeDeltas, value \in Values :
        /\ op' = "calc_interest_payment_for_period"
        /\ arg' = PeriodArg(apr, time_delta, value)
        /\ res' = CurveResult(calc_interest_payment_for_period(apr, time_delta, value))
        /\ UNCHANGED <<bank, left, steps>>

NextCalc ==
    \/ CalcAccruedInterestPaymentPerPeriod
    \/ CalcInterestPaymentForPeriod

SpecCalc == InitPure /\ [][NextCalc]_vars

\* ------------------------------------------------------------- properties
\* The exact product of two fixed-point numbers, rounded as I80F48 rounds
\* but never out of range.
FloorMul(a, b) == (a * b) \div Scale

TotalDepositValue(b) == FloorMul(b.total_deposit_shares, b.deposit_share_value)

TotalLiabilityValue(b) == FloorMul(b.total_borrow_shares, b.liability_share_value)

CapacityValue(b) == FloorMul(from_int(b.config.max_capacity), b.deposit_share_value)

PositiveDeposit == op' = "change_deposit_shares" /\ arg' > 0

\* C1 as stated: a positive change_deposit_shares returns Ok exactly when
\* the value of the new total is strictly below the value of max_capacity,
\* and BankDepositCapacityExceeded in every other case.
C1_Original ==
    [][PositiveDeposit =>
        IF FloorMul(bank.total_deposit_shares + arg', bank.deposit_share_value)
             < CapacityValue(bank)
        THEN res'.kind = "Ok"
        ELSE res'.kind = "BankDepositCapacityExceeded"]_vars

\* C1 amended: when the new total and both values are representable, a
\* positive change_deposit_shares returns Ok if the value of the new total
\* is strictly below the value of max_capacity and
\* BankDepositCapacityExceeded otherwise (equality included); when the
\* addition or either multiplication overflows it returns the math error.
C1_CapacityCheck ==
    [][PositiveDeposit =>
        IF \/ ~IsVal(bank.total_deposit_shares + arg')
           \/ ~IsVal(FloorMul(bank.total_deposit_shares + arg',
                              bank.deposit_share_value))
           \/ ~IsVal(CapacityValue(bank))
        THEN res'.kind = "MathError"
        ELSE IF FloorMul(bank.total_deposit_shares + arg', bank.deposit_share_value)
                  < CapacityValue(bank)
        THEN res'.kind = "Ok"
        ELSE res'.kind = "BankDepositCapacityExceeded"]_vars

\* A positive deposit that would have brought the total value exactly to the
\* value of a non-zero capacity, and was refused.
C1_Witness ==
    /\ op = "change_deposit_shares"
    /\ arg > 0
    /\ res.kind = "BankDepositCapacityExceeded"
    /\ left.config.max_capacity > 0
    /\ TotalDepositValue(left) = CapacityValue(left)

\* C2 as stated: a change_deposit_shares that fails with the capacity error
\* leaves the Bank exactly as it was before the call.
C2_NoPartialMutation ==
    [][(op' = "change_deposit_shares"
        /\ res'.kind = "BankDepositCapacityExceeded") => left' = bank]_vars

\* C3 as stated: a positive change_deposit_shares never succeeds when the
\* resulting total deposit value is at or above max_capacity.
C3_CapacityIsCeilingOnValue ==
    (op = "change_deposit_shares" /\ arg > 0 /\ res.kind = "Ok")
        => TotalDepositValue(bank) < from_int(bank.config.max_capacity)

\* The four outputs of an accrual of b at unix_timestamp.
AccrualChanges(b, unix_timestamp, oc) ==
    calc_interest_rate_accrual_state_changes(
        unix_timestamp - b.last_update,
        get_deposit_amount(b, b.total_deposit_shares),
        get_liability_amount(b, b.total_borrow_shares),
        b.config.interest_rate_config, b.deposit_share_value,
        b.liability_share_value, oc)

\* C4: an accrue_interest in which a step fails (a total value, the
\* utilization division, the rate computation, a share-value update or a
\* fee computation) leaves deposit_share_value, liability_share_value and
\* last_update, and the rest of the Bank, at their pre-call values; and
\* none of the three is written unless all four outputs were computed.
C4_AccrueAllOrNothing ==
    [][op' = "accrue_interest" =>
        /\ res'.kind \in {"MathError", "PanicRates", "PanicUnwrap"} =>
             /\ left'.deposit_share_value = bank.deposit_share_value
             /\ left'.liability_share_value = bank.liability_share_value
             /\ left'.last_update = bank.last_update
             /\ left' = bank
        /\ (\/ left'.deposit_share_value # bank.deposit_share_value
            \/ left'.liability_share_value # bank.liability_share_value
            \/ left'.last_update # bank.last_update) =>
             /\ arg' >= bank.last_update
             /\ \E oc \in BOOLEAN : AccrualChanges(bank, arg', oc).status = "Some"
        /\ res'.kind # "Ok" => bank' = bank]_vars

Utilization(b) ==
    TruncDiv(TotalLiabilityValue(b) * Scale, TotalDepositValue(b))

RatesOf(b) ==
    calc_interest_rate(b.config.interest_rate_config, Utilization(b), TRUE)

\* An accrual that failed with the math error although the clock had moved
\* on, the pool had deposits and the rates were computed: a share-value
\* update or a fee computation overflowed.
C4_Witness ==
    /\ op = "accrue_interest"
    /\ res.kind = "MathError"
    /\ arg > bank.last_update
    /\ IsVal(TotalDepositValue(bank))
    /\ IsVal(TotalLiabilityValue(bank))
    /\ TotalDepositValue(bank) # 0
    /\ IsVal(Utilization(bank))
    /\ RatesOf(bank).status = "Some"

\* value * (1 + apr / SECONDS_PER_YEAR * time_delta) in I80F48 arithmetic.
SimpleInterest(value, apr, time_delta) ==
    FloorMul(value,
        ONE + FloorMul(TruncDiv(apr * Scale, SECONDS_PER_YEAR), from_int(time_delta)))

\* C5: a successful accrue_interest at time t sets deposit_share_value to
\* old * (1 + lending_apr / SECONDS_PER_YEAR * (t - last_update)),
\* liability_share_value likewise with borrowing_apr, and last_update to t,
\* the rates being those of the utilization total liability value / total
\* deposit value of the pre-call state.
C5_AccrueFormula ==
    [][(op' = "accrue_interest" /\ res'.kind = "Ok") =>
        /\ RatesOf(bank).status = "Some"
        /\ bank'.deposit_share_value =
             SimpleInterest(bank.deposit_share_value, RatesOf(bank).lending_rate,
                            arg' - bank.last_update)
        /\ bank'.liability_share_value =
             SimpleInterest(bank.liability_share_value, RatesOf(bank).borrowing_rate,
                            arg' - bank.last_update)
        /\ bank'.last_update = arg']_vars

\* A successful accrual over a positive time that raised both share values.
C5_Witness ==
    /\ op = "accrue_interest"
    /\ res.kind = "Ok"
    /\ bank.last_update > 0
    /\ bank.deposit_share_value > ONE
    /\ bank.liability_share_value > ONE

\* C6 as stated: accrue_interest on a pool whose total deposit value is zero
\* returns an error and changes nothing.
C6_EmptyPoolIsError ==
    [][(op' = "accrue_interest" /\ TotalDepositValue(bank) = 0) =>
        (res'.kind # "Ok" /\ ~IsPanic(res'.kind) /\ left' = bank)]_vars

\* C7 as stated: accrue_interest with a timestamp earlier than last_update
\* comes back to the caller as an error result, the Bank unchanged, and does
\* not abort the program.
C7_RegressedClockIsError ==
    [][(op' = "accrue_interest" /\ arg' < bank.last_update) =>
        (res'.kind # "Ok" /\ ~IsPanic(res'.kind) /\ left' = bank)]_vars

\* The rounding tolerance of a comparison of share values: a quarter of a
\* unit.
Tolerance == Scale \div 4

Accrued(b, time_delta) ==
    accrue_interest(b, b.last_update + time_delta, TRUE, TRUE)

Periods == 0 .. MaxTime

AllSucceed(first, second, single) ==
    first.kind = "Ok" /\ second.kind = "Ok" /\ single.kind = "Ok"

SameShareValues(first, second, single) ==
    AllSucceed(first, second, single) =>
        /\ Abs(second.bank.deposit_share_value - single.bank.deposit_share_value)
             <= Tolerance
        /\ Abs(second.bank.liability_share_value - single.bank.liability_share_value)
             <= Tolerance

SameAfterSecond(first, single, d2) ==
    SameShareValues(first, Accrued(first.bank, d2), single)

Compounds(first, second, single, d1, d2) ==
    AllSucceed(first, second, single) =>
        /\ (d1 = 0 \/ d2 = 0) =>
             /\ second.bank.deposit_share_value = single.bank.deposit_share_value
             /\ second.bank.liability_share_value = single.bank.liability_share_value
        /\ second.bank.deposit_share_value
             = SimpleInterest(first.bank.deposit_share_value,
                              RatesOf(first.bank).lending_rate, d2)
        /\ second.bank.liability_share_value
             = SimpleInterest(first.bank.liability_share_value,
                              RatesOf(first.bank).borrowing_rate, d2)

CompoundsAfterSecond(first, single, d1, d2) ==
    Compounds(first, Accrued(first.bank, d2), single, d1, d2)

GrowsThenRests(b, first, second) ==
    /\ first.kind = "Ok"
    /\ second.kind = "Ok"
    /\ first.bank.liability_share_value > b.liability_share_value
    /\ second.bank.liability_share_value = first.bank.liability_share_value

GrowsThenRestsFrom(b, first) == GrowsThenRests(b, first, Accrued(first.bank, 0))

C9_ShareValuesMonotone ==
    [][res'.kind = "Ok" =>
        /\ bank'.liability_share_value >= bank.liability_share_value
        /\ op' # "socialize_loss" =>
             bank'.deposit_share_value >= bank.deposit_share_value]_vars

\* C10: a successful socialize_loss sets deposit_share_value to
\* (total_deposit_shares * old value - loss_amount) / total_deposit_shares,
\* and the total deposit value after the call is the total before minus
\* loss_amount, up to the rounding of the division: one unit in the last
\* place per share, and one more for the product.
C10_SocializeLossFormula ==
    [][(op' = "socialize_loss" /\ res'.kind = "Ok") =>
        /\ bank'.deposit_share_value =
             TruncDiv((TotalDepositValue(bank) - arg') * Scale,
                      bank.total_deposit_shares)
        /\ Abs(TotalDepositValue(bank') - (TotalDepositValue(bank) - arg')) * Scale
             <= Abs(bank.total_deposit_shares) + Scale]_vars

\* A loss socialized over more than one share, leaving a share worth a
\* positive fraction of a unit.
C10_Witness ==
    /\ op = "socialize_loss"
    /\ res.kind = "Ok"
    /\ arg > 0
    /\ bank.total_deposit_shares > ONE
    /\ bank.deposit_share_value > 0
    /\ bank.deposit_share_value < ONE

\* The shares two depositors can hold: whole shares and fractions of one.
HolderShares == { 1, 3, ONE, ONE + 3 }

CoveredLoss == op' = "socialize_loss" /\ res'.kind = "Ok" /\ bank.total_deposit_shares > 0 /\ arg' >= 0 /\ arg' <= TotalDepositValue(bank)

\* C11 as stated: after a socialize_loss with total_deposit_shares > 0 and
\* 0 <= loss_amount <= total deposit value, deposit_share_value is
\* non-negative, no share count has changed, and the values of two
\* depositors' shares s1 and s2 are in the ratio s1 : s2 exactly.
C11_ProRataExact ==
    [][CoveredLoss =>
        /\ bank'.deposit_share_value >= 0
        /\ bank'.total_deposit_shares = bank.total_deposit_shares
        /\ bank'.total_borrow_shares = bank.total_borrow_shares
        /\ \A s1 \in HolderShares, s2 \in HolderShares :
             s1 + s2 <= bank.total_deposit_shares =>
                get_deposit_amount(bank', s1) * s2 = get_deposit_amount(bank', s2) * s1]_vars

\* a1 : a2 is s1 : s2 up to the rounding down of each value to the last
\* place.
RatioWithinRounding(a1, a2, s1, s2) ==
    /\ IsVal(a1)
    /\ IsVal(a2)
    /\ Abs(a1 * s2 - a2 * s1) < (IF s1 > s2 THEN s1 ELSE s2)

\* C11 amended: after such a socialize_loss deposit_share_value is
\* non-negative, no share count has changed, and the values of two
\* depositors' shares s1 and s2 are in the ratio s1 : s2 up to the rounding
\* of get_deposit_amount, each value being s * deposit_share_value rounded
\* down to the last place.
C11_ProRataWithinRounding ==
    [][CoveredLoss =>
        /\ bank'.deposit_share_value >= 0
        /\ bank'.total_deposit_shares = bank.total_deposit_shares
        /\ bank'.total_borrow_shares = bank.total_borrow_shares
        /\ \A s1 \in HolderShares, s2 \in HolderShares :
             s1 + s2 <= bank.total_deposit_shares =>
                RatioWithinRounding(get_deposit_amount(bank', s1),
                                    get_deposit_amount(bank', s2), s1, s2)]_vars

\* A loss socialized that left a positive share value at which the values
\* of two holdings are not exactly in the ratio of the holdings.
C11_Witness ==
    /\ op = "socialize_loss"
    /\ res.kind = "Ok"
    /\ arg > 0
    /\ bank.deposit_share_value > 0
    /\ \E s1 \in HolderShares, s2 \in HolderShares :
         /\ s1 + s2 <= bank.total_deposit_shares
         /\ get_deposit_amount(bank, s1) * s2 # get_deposit_amount(bank, s2) * s1

\* C12: socialize_loss on a Bank with total_deposit_shares = 0 returns an
\* error, whatever the loss_amount, and leaves every field unchanged.
C12_EmptyPoolLoss ==
    [][(op' = "socialize_loss" /\ bank.total_deposit_shares = 0) =>
        /\ res'.kind = "MathError"
        /\ left' = bank
        /\ bank' = bank]_vars

\* A loss refused on a pool without deposit shares.
C12_Witness ==
    /\ op = "socialize_loss"
    /\ res.kind = "MathError"
    /\ bank.total_deposit_shares = 0
    /\ left = bank

WithinRounding(s, back, v) == IsVal(back) => Abs(back - s) * Abs(v) < Abs(v) + Scale

FailsOnlyOnOverflow(b, s) ==
    /\ get_deposit_amount(b, s) = NONE <=> ~IsVal(FloorMul(s, b.deposit_share_value))
    /\ get_liability_amount(b, s) = NONE <=> ~IsVal(FloorMul(s, b.liability_share_value))
    /\ get_deposit_shares(b, s) = NONE <=>
         (b.deposit_share_value = 0 \/ ~IsVal(TruncDiv(s * Scale, b.deposit_share_value)))
    /\ get_liability_shares(b, s) = NONE <=>
         (b.liability_share_value = 0 \/ ~IsVal(TruncDiv(s * Scale, b.liability_share_value)))

ConvertedShares(b) == HolderShares \cup {b.total_deposit_shares, b.total_borrow_shares}

\* C18: with non-zero share values, get_deposit_shares(get_deposit_amount(s))
\* and get_liability_shares(get_liability_amount(s)) are s within rounding:
\* the value of the difference is below one unit in the last place of the
\* value plus one of the shares; in particular for the share totals.  Each
\* conversion fails only on overflow or a division by a zero share value.
C18_ConversionsInverse ==
    \A s \in ConvertedShares(bank) :
        /\ FailsOnlyOnOverflow(bank, s)
        /\ (bank.deposit_share_value # 0 /\ IsVal(get_deposit_amount(bank, s))) =>
             WithinRounding(s, get_deposit_shares(bank, get_deposit_amount(bank, s)),
                            bank.deposit_share_value)
        /\ (bank.liability_share_value # 0 /\ IsVal(get_liability_amount(bank, s))) =>
             WithinRounding(s, get_liability_shares(bank, get_liability_amount(bank, s)),
                            bank.liability_share_value)

\* A Bank whose share values have moved apart and a holding that the round
\* trip through its value changes by rounding.
C18_Witness ==
    /\ bank.deposit_share_value # bank.liability_share_value
    /\ bank.deposit_share_value > 0
    /\ bank.total_deposit_shares > 0
    /\ \E s \in ConvertedShares(bank) :
         /\ IsVal(get_deposit_shares(bank, get_deposit_amount(bank, s)))
         /\ get_deposit_shares(bank, get_deposit_amount(bank, s)) # s

\* C19: change_liability_shares(delta) adds delta to total_borrow_shares
\* and succeeds whenever the sum does not overflow, also when the total
\* liability value then exceeds the total deposit value; on overflow it
\* returns the math error; it never returns BankDepositCapacityExceeded.
C19_BorrowUnconditional ==
    [][op' = "change_liability_shares" =>
        IF IsVal(bank.total_borrow_shares + arg')
        THEN /\ res'.kind = "Ok"
             /\ bank' = [bank EXCEPT !.total_borrow_shares = bank.total_borrow_shares + arg']
        ELSE /\ res'.kind = "MathError"
             /\ bank' = bank]_vars

\* A borrow that succeeded and left the liabilities above the deposits.
C19_Witness ==
    /\ op = "change_liability_shares"
    /\ res.kind = "Ok"
    /\ arg > 0
    /\ TotalLiabilityValue(bank) > TotalDepositValue(bank)

FeeOf(apr, time_delta, total_liabilities) ==
    FloorMul(FloorMul(total_liabilities, TruncDiv(apr * Scale, SECONDS_PER_YEAR)), from_int(time_delta))

IsTruncated(fee, amount) == fee = amount \div Scale /\ fee * Scale <= amount

\* C20 as stated: a successful accrue_interest returns the two fees
\* total_liabilities * fee_apr / SECONDS_PER_YEAR * time_delta, each
\* truncated to an integer, with total_liabilities the liability value
\* before the accrual; neither exceeds the fractional amount.
C20_FeesTruncated ==
    [][(op' = "accrue_interest" /\ res'.kind = "Ok") =>
        /\ IsTruncated(res'.fees[1],
              FeeOf(RatesOf(bank).group_fees_apr, arg' - bank.last_update,
                    TotalLiabilityValue(bank)))
        /\ IsTruncated(res'.fees[2],
              FeeOf(RatesOf(bank).insurance_fees_apr, arg' - bank.last_update,
                    TotalLiabilityValue(bank)))]_vars

\* C13: Bank::new returns a Bank with both share values exactly 1, both
\* share totals 0, last_update the supplied timestamp, and the supplied
\* config, mint, group and vaults stored unchanged.
C13_NewBank ==
    op = "new" =>
        /\ bank.deposit_share_value = Scale
        /\ bank.liability_share_value = Scale
        /\ bank.total_deposit_shares = 0
        /\ bank.total_borrow_shares = 0
        /\ bank.last_update = arg.current_timestamp
        /\ bank.config = arg.config
        /\ bank.mint_pk = arg.mint_pk
        /\ bank.group = arg.marginfi_group_pk
        /\ bank.liquidity_vault = arg.liquidity_vault
        /\ bank.insurance_vault = arg.insurance_vault
        /\ bank.fee_vault = arg.fee_vault

\* A Bank created at a timestamp other than 0 with a configuration that has
\* parameters other than 0.
C13_Witness ==
    /\ op = "new"
    /\ arg.current_timestamp > 0
    /\ arg.config.interest_rate_config.optimal_utilization_rate = Half
    /\ arg.marginfi_group_pk = "group2"
    /\ bank.last_update > 0

HeldIrc == bank.config.interest_rate_config

HeldBase == interest_rate_curve(HeldIrc, arg.utilization_ratio, arg.oc)

\* x is the product a * b, rounded to the last place, plus c.
IsProductPlus(x, a, b, c) == Abs(x - (FloorMul(a, b) + c)) <= 1

\* C14 as stated: a result of calc_interest_rate(u) is lending_rate =
\* base * u, borrowing_rate = base * (1 + protocol_ir_fee +
\* insurance_ir_fee) + protocol_fixed_fee_apr + insurance_fee_fixed_apr,
\* group_fee_apr = base * protocol_ir_fee + protocol_fixed_fee_apr and
\* insurance_fee_apr = base * insurance_ir_fee + insurance_fee_fixed_apr,
\* with base = interest_rate_curve(u), within rounding.
C14_RateFormulas ==
    (op = "calc_interest_rate" /\ res.status = "Some") =>
        /\ IsProductPlus(res.lending_rate, HeldBase, arg.utilization_ratio, 0)
        /\ IsProductPlus(res.borrowing_rate, HeldBase,
                ONE + HeldIrc.protocol_ir_fee + HeldIrc.insurance_ir_fee,
                HeldIrc.protocol_fixed_fee_apr + HeldIrc.insurance_fee_fixed_apr)
        /\ IsProductPlus(res.group_fees_apr, HeldBase, HeldIrc.protocol_ir_fee,
                HeldIrc.protocol_fixed_fee_apr)
        /\ IsProductPlus(res.insurance_fees_apr, HeldBase, HeldIrc.insurance_ir_fee,
                HeldIrc.insurance_fee_fixed_apr)

\* The piecewise-linear function of C16, in the roundings of I80F48.
PiecewiseLinear(irc, u) ==
    IF u <= irc.optimal_utilization_rate
    THEN FloorMul(TruncDiv(u * Scale, irc.optimal_utilization_rate),
                  irc.plateau_interest_rate)
    ELSE FloorMul(TruncDiv((u - irc.optimal_utilization_rate) * Scale,
                           ONE - irc.optimal_utilization_rate),
                  irc.max_interest_rate - irc.plateau_interest_rate)
         + irc.plateau_interest_rate

\* C16 as stated: a result of interest_rate_curve(u) is u / optimal *
\* plateau when u <= optimal and (u - optimal) / (1 - optimal) * (max -
\* plateau) + plateau when u > optimal; it is 0 at u = 0, plateau at
\* u = optimal and max at u = 1.
C16_PiecewiseLinear ==
    (op = "interest_rate_curve" /\ res.status = "Some") =>
        /\ res.value = PiecewiseLinear(HeldIrc, arg.utilization_ratio)
        /\ arg.utilization_ratio = 0 => res.value = 0
        /\ arg.utilization_ratio = HeldIrc.optimal_utilization_rate =>
             res.value = HeldIrc.plateau_interest_rate
        /\ arg.utilization_ratio = ONE => res.value = HeldIrc.max_interest_rate

FeeSumOverflows(irc) ==
    \/ ~IsVal(irc.protocol_ir_fee + irc.insurance_ir_fee)
    \/ ~IsVal(irc.protocol_fixed_fee_apr + irc.insurance_fee_fixed_apr)

CurveDifferenceOverflows(irc, u) ==
    /\ u > irc.optimal_utilization_rate
    /\ \/ ~IsVal(u - irc.optimal_utilization_rate)
       \/ ~IsVal(ONE - irc.optimal_utilization_rate)
       \/ /\ ONE - irc.optimal_utilization_rate # 0
          /\ ~IsVal(irc.max_interest_rate - irc.plateau_interest_rate)

\* C17 as stated: an overflow of a sum of fee parameters or of one of the
\* differences u - optimal, 1 - optimal, max - plateau makes
\* interest_rate_curve and calc_interest_rate return None; they neither
\* abort nor return a value.
C17_OverflowIsNone ==
    /\ (op = "interest_rate_curve"
        /\ CurveDifferenceOverflows(HeldIrc, arg.utilization_ratio))
          => res.status = "None"
    /\ (op = "calc_interest_rate"
        /\ (FeeSumOverflows(HeldIrc)
            \/ CurveDifferenceOverflows(HeldIrc, arg.utilization_ratio)))
          => res.status = "None"

BankOfAccrual == op' = "accrue_interest" /\ arg' >= bank.last_update /\ IsVal(TotalDepositValue(bank)) /\ IsVal(TotalLiabilityValue(bank)) /\ TotalDepositValue(bank) # 0 /\ IsVal(Utilization(bank))

\* C15 as stated: in an accrual of a reachable Bank none of the four
\* assertions of calc_interest_rate fails: a rate computation in which no
\* + or - overflows does not panic.
C15_AssertionsNeverFail ==
    [][(BankOfAccrual /\ res'.kind = "PanicRates") =>
        \/ FeeSumOverflows(bank.config.interest_rate_config)
        \/ CurveDifferenceOverflows(bank.config.interest_rate_config, Utilization(bank))]_vars

ConfigFields == { "deposit_weight_init", "deposit_weight_maint", "liability_weight_init", "liability_weight_maint", "max_capacity", "pyth_oracle" }

\* The Bank with only its six configurable fields replaced.
WithConfigFields(b, c) ==
    [b EXCEPT
        !.config.deposit_weight_init = c.deposit_weight_init,
        !.config.deposit_weight_maint = c.deposit_weight_maint,
        !.config.liability_weight_init = c.liability_weight_init,
        !.config.liability_weight_maint = c.liability_weight_maint,
        !.config.max_capacity = c.max_capacity,
        !.config.pyth_oracle = c.pyth_oracle]

\* C21: configure returns Ok and replaces exactly the fields present in its
\* argument by the given values; absent fields, the interest-rate
\* configuration and every field outside the configuration keep their
\* values; an argument with every field absent changes nothing; applying
\* the same argument a second time changes nothing more.
C21_ConfigureExactlyPresent ==
    [][op' = "configure" =>
        /\ res'.kind = "Ok"
        /\ left' = bank'
        /\ \A f \in ConfigFields :
             bank'.config[f] = IF arg'[f] = NoneOpt THEN bank.config[f] ELSE arg'[f][1]
        /\ bank' = WithConfigFields(bank, bank'.config)
        /\ (\A f \in ConfigFields : arg'[f] = NoneOpt) => bank' = bank
        /\ configure(bank', arg') = Outcome("Ok", bank', NoFees)]_vars

\* A configure that replaced some fields and kept others, on a Bank that
\* holds deposits.
C21_Witness ==
    /\ op = "configure"
    /\ arg.deposit_weight_maint = SomeOpt(ONE)
    /\ arg.max_capacity = NoneOpt
    /\ bank.config.deposit_weight_maint = ONE
    /\ bank.config.max_capacity = 3
    /\ bank.total_deposit_shares > 0

\* The operations that may have written the field f when it differs
\* between the Banks b and c.
WrittenOnlyBy(b, c, f, writers) == c[f] # b[f] => op' \in writers

Writers(b, c) ==
    /\ WrittenOnlyBy(b, c, "deposit_share_value", {"accrue_interest", "socialize_loss"})
    /\ WrittenOnlyBy(b, c, "liability_share_value", {"accrue_interest"})
    /\ WrittenOnlyBy(b, c, "last_update", {"accrue_interest"})
    /\ WrittenOnlyBy(b, c, "total_deposit_shares", {"change_deposit_shares"})
    /\ WrittenOnlyBy(b, c, "total_borrow_shares", {"change_liability_shares"})

\* C22: each Bank field has a fixed set of writers, in the stored Bank and
\* in the Bank a failed call leaves in memory: deposit_share_value changes
\* only in accrue_interest and socialize_loss, liability_share_value and
\* last_update only in accrue_interest, total_deposit_shares only in
\* change_deposit_shares, total_borrow_shares only in
\* change_liability_shares; socialize_loss leaves both share totals alone.
C22_FixedWriters ==
    [][/\ Writers(bank, bank')
       /\ Writers(bank, left')
       /\ op' = "socialize_loss" =>
            /\ left'.total_deposit_shares = bank.total_deposit_shares
            /\ left'.total_borrow_shares = bank.total_borrow_shares]_vars

\* A socialize_loss that lowered the value of a deposit share of a Bank with
\* deposits and borrows.
C22_Witness ==
    /\ op = "socialize_loss"
    /\ res.kind = "Ok"
    /\ arg > 0
    /\ bank.total_deposit_shares > 0
    /\ bank.total_borrow_shares > 0
    /\ bank.deposit_share_value < ONE
    /\ bank.liability_share_value = ONE

IsPeriodResult(name) == op = name /\ res.status = "Some"

\* The distance of the result r from value * (1 + apr / SECONDS_PER_YEAR *
\* time_delta), in units of 1 / (YearSeconds * Scale) of the last place.
AccruedError(a, r) ==
    Abs(a.value * YearSeconds * Scale + a.value * a.apr * a.time_delta - r * YearSeconds * Scale)

\* The distance of the payment p from value * apr / SECONDS_PER_YEAR *
\* time_delta, in the same units.
PaymentError(a, p) ==
    Abs(a.value * a.apr * a.time_delta - p * YearSeconds * Scale)

\* C23 as stated: for apr >= 0 and value >= 0 a result of
\* calc_accrued_interest_payment_per_period is within the fixed tolerance
\* of value * (1 + apr / SECONDS_PER_YEAR * time_delta).
C23_Original ==
    (IsPeriodResult("calc_accrued_interest_payment_per_period") /\ arg.apr >= 0 /\ arg.value >= 0)
        => AccruedError(arg, res.value) <= Tolerance * YearSeconds * Scale

\* C23 amended: a result of calc_accrued_interest_payment_per_period
\* differs from value * (1 + apr / SECONDS_PER_YEAR * time_delta) by no
\* more than |value| * time_delta + 1 units in the last place, value
\* counted in whole units: the quotient apr / SECONDS_PER_YEAR is rounded
\* to the last place before it is multiplied by time_delta and by value.
C23_AccruedWithinRounding ==
    IsPeriodResult("calc_accrued_interest_payment_per_period")
        => AccruedError(arg, res.value) <= (Abs(arg.value) * arg.time_delta + Scale) * YearSeconds

\* An accrued payment whose distance from the simple interest is above the
\* fixed tolerance.
C23_Witness ==
    /\ IsPeriodResult("calc_accrued_interest_payment_per_period")
    /\ arg.apr > 0
    /\ arg.value > 0
    /\ arg.time_delta > 0
    /\ AccruedError(arg, res.value) > Tolerance * YearSeconds * Scale

\* C24 as stated: a result of calc_interest_payment_for_period is within
\* the fixed tolerance of value * apr / SECONDS_PER_YEAR * time_delta, over
\* exactly one year of apr * value, and with the principal added of
\* calc_accrued_interest_payment_per_period for the same arguments.
C24_Original ==
    IsPeriodResult("calc_interest_payment_for_period") =>
        /\ PaymentError(arg, res.value) <= Tolerance * YearSeconds * Scale
        /\ arg.time_delta = YearSeconds =>
             Abs(res.value * Scale - arg.apr * arg.value) <= Tolerance * Scale
        /\ IsVal(calc_accrued_interest_payment_per_period(arg.apr, arg.time_delta, arg.value)) =>
             Abs(calc_accrued_interest_payment_per_period(arg.apr, arg.time_delta, arg.value)
                  - (arg.value + res.value)) <= Tolerance

\* C24 amended: a result of calc_interest_payment_for_period is the
\* interest only; it differs from value * apr / SECONDS_PER_YEAR *
\* time_delta (over one year: from apr * value) by no more than
\* (|value| + 1) * time_delta units in the last place, value counted in
\* whole units; with the principal added it is at most
\* calc_accrued_interest_payment_per_period for the same arguments and less
\* than time_delta units in the last place below it (equal for time_delta
\* = 0 and 1).
C24_PaymentWithinRounding ==
    IsPeriodResult("calc_interest_payment_for_period") =>
        /\ PaymentError(arg, res.value) <= (Abs(arg.value) + Scale) * arg.time_delta * YearSeconds
        /\ arg.time_delta = YearSeconds =>
             Abs(res.value * Scale - arg.apr * arg.value) <= (Abs(arg.value) + Scale) * YearSeconds
        /\ IsVal(calc_accrued_interest_payment_per_period(arg.apr, arg.time_delta, arg.value)) =>
             /\ arg.value + res.value <= calc_accrued_interest_payment_per_period(arg.apr, arg.time_delta, arg.value)
             /\ calc_accrued_interest_payment_per_period(arg.apr, arg.time_delta, arg.value)
                  - (arg.value + res.value) <= IF arg.time_delta = 0 THEN 0 ELSE arg.time_delta - 1

\* A payment over one year that is further than the fixed tolerance from
\* apr * value.
C24_Witness ==
    /\ IsPeriodResult("calc_interest_payment_for_period")
    /\ arg.time_delta = YearSeconds
    /\ arg.apr > 0
    /\ arg.value > 0
    /\ res.value > 0
    /\ Abs(res.value * Scale - arg.apr * arg.value) > Tolerance * Scale

PerSecond(apr) == TruncDiv(apr * Scale, SECONDS_PER_YEAR)

FeesOfAccrual(c) == c.group_fees_collected + c.insurance_fees_collected

\* What an accrual adds to the liabilities beyond what it adds to the
\* deposits and the fees c, in units of 1 / Scale of the last place:
\* total_borrow_shares * change of liability_share_value
\* - total_deposit_shares * change of deposit_share_value - fees.
ValueCreated(b, after, c) ==
    b.total_borrow_shares * (after.liability_share_value - b.liability_share_value)
      - b.total_deposit_shares * (after.deposit_share_value - b.deposit_share_value)
      - FeesOfAccrual(c) * Scale

\* The roundings of an accrual over time_delta seconds, each at most one
\* unit in the last place, weighted by what the code multiplies them with,
\* in units of 1 / (YearSeconds * Scale * Scale) of the last place: those
\* of the two new share values (times the share totals), of the two fee
\* products (times time_delta), of the rates and their per-second quotients
\* (times the total values and time_delta), of the utilization (times the
\* total deposit value, the base rate and time_delta) and of the two total
\* values (times the per-second rates and time_delta).
AccrualRounding(b, time_delta, base_rate, r) ==
    YearSeconds * Scale * (b.total_deposit_shares + b.total_borrow_shares)
      + 2 * time_delta * YearSeconds * Scale * Scale
      + time_delta
          * ( 2 * TotalLiabilityValue(b) * Scale
            + 2 * TotalLiabilityValue(b) * YearSeconds * Scale
            + Abs(TotalDepositValue(b)) * Abs(base_rate)
            + Abs(TotalDepositValue(b)) * Scale
            + Abs(TotalDepositValue(b)) * YearSeconds * Scale
            + (PerSecond(r.borrowing_rate) + PerSecond(r.lending_rate)) * YearSeconds * Scale )

FeeParametersZero(irc) ==
    /\ irc.protocol_ir_fee = ZERO
    /\ irc.protocol_fixed_fee_apr = ZERO
    /\ irc.insurance_ir_fee = ZERO
    /\ irc.insurance_fee_fixed_apr = ZERO

\* C25: in every successful accrue_interest the increase of the total
\* liability value, total_borrow_shares * change of liability_share_value,
\* equals the increase of the total deposit value, total_deposit_shares *
\* change of deposit_share_value, plus the group fee plus the insurance fee
\* computed for that accrual, up to the roundings of the computation; with
\* all fee parameters zero the two fees are zero.
C25_AccrualConservesValue ==
    [][(op' = "accrue_interest" /\ res'.kind = "Ok") =>
        /\ Abs(ValueCreated(bank, bank', AccrualChanges(bank, arg', TRUE))) * YearSeconds * Scale
             <= AccrualRounding(bank, arg' - bank.last_update,
                    interest_rate_curve(bank.config.interest_rate_config, Utilization(bank), TRUE),
                    RatesOf(bank))
        /\ FeeParametersZero(bank.config.interest_rate_config) =>
             FeesOfAccrual(AccrualChanges(bank, arg', TRUE)) = 0]_vars

\* A successful accrual over a period in which borrowers' debt, depositors'
\* value and the fees all grew.
C25_Witness ==
    /\ op = "accrue_interest"
    /\ res.kind = "Ok"
    /\ bank.total_borrow_shares > 0
    /\ bank.total_deposit_shares > bank.total_borrow_shares
    /\ bank.liability_share_value > ONE
    /\ bank.deposit_share_value > ONE
    /\ res.fees[1] + res.fees[2] > 0

\* A positive deposit in which neither the new total of shares nor one of
\* the two values compared overflows.
DepositWithoutOverflow ==
    /\ PositiveDeposit
    /\ IsVal(bank.total_deposit_shares + arg')
    /\ IsVal(FloorMul(bank.total_deposit_shares + arg', bank.deposit_share_value))
    /\ IsVal(CapacityValue(bank))

\* C26: in every state with deposit_share_value > 0 a positive
\* change_deposit_shares(delta) in which nothing overflows returns Ok when
\* total_deposit_shares + delta < max_capacity, compared as share counts,
\* and BankDepositCapacityExceeded otherwise, whatever the value of a share.
C26_CapacityInShares ==
    [][(DepositWithoutOverflow /\ bank.deposit_share_value > 0) =>
        res'.kind = IF bank.total_deposit_shares + arg' < from_int(bank.config.max_capacity)
                    THEN "Ok" ELSE "BankDepositCapacityExceeded"]_vars

\* A deposit accepted after an accrual had raised the value of a share: the
\* shares are below max_capacity, their value is not.
C26_Witness ==
    /\ op = "change_deposit_shares"
    /\ arg > 0
    /\ res.kind = "Ok"
    /\ bank.deposit_share_value > ONE
    /\ bank.total_deposit_shares < from_int(bank.config.max_capacity)
    /\ TotalDepositValue(bank) >= from_int(bank.config.max_capacity)

Amounts == { -ONE, ZERO, 1, Half, ONE, 2 * ONE, MaxBits }

\* C27: a Bank whose deposit_share_value is 0 is stuck: get_deposit_shares
\* fails for every amount, every positive change_deposit_shares fails the
\* capacity check, accrue_interest fails, and accrue_interest,
\* change_deposit_shares, change_liability_shares and configure leave
\* deposit_share_value at 0, in the stored Bank and in memory.
C27_ZeroShareValueIsStuck ==
    [][bank.deposit_share_value = 0 =>
        /\ \A amount \in Amounts : get_deposit_shares(bank, amount) = NONE
        /\ PositiveDeposit =>
             res'.kind = IF IsVal(bank.total_deposit_shares + arg')
                         THEN "BankDepositCapacityExceeded" ELSE "MathError"
        /\ op' = "accrue_interest" => res'.kind # "Ok"
        /\ op' # "socialize_loss" =>
             /\ bank'.deposit_share_value = 0
             /\ left'.deposit_share_value = 0]_vars

\* An accrual that failed on a Bank with deposits whose share value a
\* socialize_loss had brought to 0.
C27_Witness ==
    /\ op = "accrue_interest"
    /\ res.kind = "MathError"
    /\ arg >= bank.last_update
    /\ bank.deposit_share_value = 0
    /\ bank.total_deposit_shares > 0

\* C28 as stated: deposit_share_value is non-negative in every reachable
\* Bank state: socialize_loss never commits a negative deposit_share_value.
C28_ShareValueNonNegative == bank.deposit_share_value >= 0

\* C29: last_update never decreases: a successful accrue_interest sets it
\* to its timestamp, which is not below the previous value; no other
\* operation and no call that returns an error changes it, in the stored
\* Bank or in memory; a call that panics leaves the stored Bank as it was.
C29_LastUpdateMonotone ==
    [][/\ bank'.last_update >= bank.last_update
       /\ bank'.last_update # bank.last_update =>
            op' = "accrue_interest" /\ res'.kind = "Ok"
       /\ (op' = "accrue_interest" /\ res'.kind = "Ok") =>
            bank'.last_update = arg' /\ arg' >= bank.last_update
       /\ (op' # "accrue_interest" \/ res'.kind \in {"MathError", "PanicUnwrap", "PanicRates"}) =>
            left'.last_update = bank.last_update]_vars

\* An accrue_interest with a timestamp before last_update, after a
\* successful accrual had moved last_update forward: the call panicked and
\* last_update stayed.
C29_Witness ==
    /\ op = "accrue_interest"
    /\ res.kind = "PanicUnwrap"
    /\ arg < bank.last_update
    /\ left.last_update = bank.last_update

AccrualAtLastUpdate == op' = "accrue_interest" /\ arg' = bank.last_update

SameAccrualFields(b, c) ==
    /\ c.deposit_share_value = b.deposit_share_value
    /\ c.liability_share_value = b.liability_share_value
    /\ c.last_update = b.last_update

\* C30 as stated: accrue_interest at the time of last_update on a pool with
\* non-zero total deposit value succeeds, leaves deposit_share_value,
\* liability_share_value and last_update unchanged and returns fees (0, 0).
C30_Original ==
    [][(AccrualAtLastUpdate /\ TotalDepositValue(bank) # 0) =>
        /\ res'.kind = "Ok"
        /\ SameAccrualFields(bank, bank')
        /\ res'.fees = <<0, 0>>]_vars

\* Everything an accrual computes before it looks at time_delta can be
\* computed: the two total values, the utilization (the total deposit value
\* is not 0), the four rates with their assertions, and the product of the
\* total liability value with each per-second fee rate.
AccrualComputable(b, r) ==
    /\ IsVal(TotalDepositValue(b))
    /\ IsVal(TotalLiabilityValue(b))
    /\ TotalDepositValue(b) # 0
    /\ IsVal(Utilization(b))
    /\ r.status = "Some"
    /\ IsVal(FloorMul(TotalLiabilityValue(b), PerSecond(r.group_fees_apr)))
    /\ IsVal(FloorMul(TotalLiabilityValue(b), PerSecond(r.insurance_fees_apr)))

\* C30 amended: accrue_interest at the time of last_update succeeds exactly
\* when the utilization, the rates and the per-second fees of the pool can
\* be computed, which a non-zero total deposit value alone does not
\* ensure; it returns Ok, the math error or fails a rate assertion, never
\* changes a field of the Bank and returns no fee; repeated at the same
\* timestamp it ends the same way.
C30_AccrualAtLastUpdate ==
    [][AccrualAtLastUpdate =>
        /\ res'.kind \in {"Ok", "MathError", "PanicRates"}
        /\ res'.kind = "Ok" <=> AccrualComputable(bank, RatesOf(bank))
        /\ bank' = bank
        /\ left' = bank
        /\ res'.fees = <<0, 0>>
        /\ \A oc \in BOOLEAN, da \in BOOLEAN :
             accrue_interest(bank', arg', oc, da) = Outcome(res'.kind, bank', NoFees)]_vars

\* A successful accrual at time 0, the time of last_update of every Bank
\* that has not accrued over a period, on a pool with deposits, borrows and
\* positive fee rates.
C30_Witness ==
    /\ op = "accrue_interest"
    /\ res.kind = "Ok"
    /\ arg = 0
    /\ bank.last_update = 0
    /\ bank.total_deposit_shares > 0
    /\ bank.total_borrow_shares > 0
    /\ bank.config.interest_rate_config.protocol_fixed_fee_apr > 0

====
